---- MODULE Spec2Model ----
(***************************************************************************)
(* Model of the roadmap bot's ordered task list (app/dao.py), of the       *)
(* handlers that mutate it and then push the rendered roadmap to the       *)
(* channel message (app/handlers.py), and of the way requests share the    *)
(* database (app/database.py, app/middleware.py).                          *)
(*                                                                         *)
(* Every request runs in its own asyncio task and its own AsyncSession,    *)
(* but the engine is built with StaticPool (one DBAPI connection for all   *)
(* sessions) and isolation_level None (the driver autocommits), so every   *)
(* statement a session executes is seen by every other session as soon as  *)
(* it has run.  A request is therefore a sequence of steps, one per        *)
(* awaited statement, each reading or writing the one shared table.        *)
(* A session's read is modelled as a read of the rows at the statement     *)
(* that issues it.                                                         *)
(***************************************************************************)
EXTENDS Integers, Sequences, FiniteSets, TLC

\* ---------------------------------------------------------------- bounds
MaxTasks == 3        \* task rows that can exist at once, and the task ids
MaxOrder == 4        \* largest order_index create_task is let to assign
SyncTasks == 2       \* task rows in the runs that exercise the channel sync
NumProjects == 2     \* project rows
NumReqs == 2         \* requests in flight at once
ConcMoves == 2       \* moves begun in the runs with requests in flight together
NumChannels == 1     \* channels a project can be bound to
MaxMsgs == 2         \* messages the bot sends to channels
TicksPerDay == 2     \* clock ticks in one day
MaxTick == 5         \* last tick the clock reaches

TaskIds == 1..MaxTasks
Projects == 1..NumProjects
Reqs == 1..NumReqs
Channels == 1..NumChannels
NULL == 0

\* models.py: the task statuses
Statuses == {"planned", "in_progress", "completed", "cancelled"}

VARIABLES
  tasks,      \* table tasks: [TaskIds -> row or NoTask]
  projects,   \* table projects: [Projects -> row]
  req,        \* per request: the handler it runs, where it is, its locals
  base,       \* history: the tasks table when no request was running last
  epi,        \* history: the requests begun since base was taken
  moves,      \* history: the moves begun, where the run bounds them
  sent,       \* mirror port: the id of the last message sent to a channel
  hist,       \* history: the move the previous request made, if it made one
  now,        \* the clock datetime.now() reads, in ticks
  posted      \* mirror port: the channel each message sent is in

vars == <<tasks, projects, req, base, epi, moves, sent, hist, now, posted>>

NoTask == [project_id |-> NULL, order_index |-> 0, status |-> "none",
           created_at |-> NULL, completed_at |-> NULL, actual_days |-> NULL]

Exists(T, id) == T[id].project_id # NULL

\* Task(...) as create_task builds it
NewTask(project_id, next_order, created_at) ==
  [project_id |-> project_id, order_index |-> next_order, status |-> "planned",
   created_at |-> created_at, completed_at |-> NULL, actual_days |-> NULL]

\* Project(...) as create_project builds it: no channel, no message, active
NewProject == [channel_id |-> NULL, message_id |-> NULL, is_active |-> TRUE]

\* ids of the rows WHERE Task.project_id == project_id
ProjectTaskIds(T, p) == {id \in TaskIds : T[id].project_id = p}

RECURSIVE SetMax(_)
SetMax(S) ==
  IF S = {} THEN 0
  ELSE LET x == CHOOSE y \in S : TRUE
           m == SetMax(S \ {x})
       IN IF x > m THEN x ELSE m

\* select(func.coalesce(func.max(Task.order_index), 0) + 1)
\*   .where(Task.project_id == project_id)
NextOrder(T, p) ==
  SetMax({T[id].order_index : id \in ProjectTaskIds(T, p)}) + 1

\* the primary key the database gives an inserted row.  Task.id is an
\* INTEGER PRIMARY KEY without AUTOINCREMENT, the rowid of SQLite: the
\* largest id in the table plus one, so the id of a deleted last row is
\* given again.
FreshId(T) == SetMax({id \in TaskIds : Exists(T, id)}) + 1

\* get_project_tasks: the rows of the project ORDER BY order_index ASC
\* (rows of equal order_index in primary-key order)
RECURSIVE SortIds(_, _)
SortIds(T, S) ==
  IF S = {} THEN << >>
  ELSE LET first == CHOOSE a \in S : \A b \in S :
                      \/ T[a].order_index < T[b].order_index
                      \/ (T[a].order_index = T[b].order_index /\ a <= b)
       IN << [id |-> first, order_index |-> T[first].order_index] >>
          \o SortIds(T, S \ {first})

get_project_tasks(T, p) == SortIds(T, ProjectTaskIds(T, p))

\* ------------------------------------------------------------- requests
\* format_roadmap_message: the last line of the text, the date and the time
\* of day of datetime.now() to the minute.  A tick is longer than a minute:
\* the line printed at one tick differs from the line printed at another.
UpdatedLine(at) == [date |-> at \div TicksPerDay, time |-> at % TicksPerDay]

Merge(rec, upd) ==
  [k \in DOMAIN rec |-> IF k \in DOMAIN upd THEN upd[k] ELSE rec[k]]

IdleReq ==
  [op |-> "none", pc |-> "idle",
   task_id |-> NULL, project_id |-> NULL,
   new_position |-> 0, new_status |-> "none",
   current_position |-> 0, all_tasks |-> << >>, i |-> 0,
   next_order |-> 0,
   channel_id |-> NULL, message_id |-> NULL,
   err |-> "none", reply |-> "none", notice |-> "none", writes |-> 0,
   check |-> "none", text |-> << >>, edits |-> 0, sends |-> 0,
   delivered |-> TRUE, at |-> 0, stamp |-> UpdatedLine(0),
   head |-> [progress |-> 0, completed_tasks |-> 0, total_tasks |-> 0],
   stats |-> {}, over |-> FALSE]

Idle(r) == req[r].pc \in {"idle", "done"}

Set(r, upd) == req' = [req EXCEPT ![r] = Merge(@, upd)]

Finish(r, upd) ==
  req' = [req EXCEPT ![r] =
            Merge(Merge(@, upd), [pc |-> "done", all_tasks |-> << >>, i |-> 0])]

NoHist == [task_id |-> NULL, from |-> 0, to |-> 0,
           pre |-> [id \in TaskIds |-> NoTask]]

MoveOps == {"move_pos", "move_up", "move_down"}

\* The history kept when request r begins.  base is the table the request
\* starts from when no other request is running, and epi counts the requests
\* begun since.
Begin(r) ==
  /\ Idle(r)
  /\ IF \A q \in Reqs \ {r} : Idle(q)
     THEN base' = tasks /\ epi' = 1
     ELSE base' = base /\ epi' = IF epi < 3 THEN epi + 1 ELSE 3

\* With seq (one request at a time): request r, about to move task id to
\* position np, follows a request that moved the same task away from np.
\* hist then keeps that earlier move and the table it started from.
Undoes(r, seq, id, np) ==
  /\ seq
  /\ req[r].op \in MoveOps /\ req[r].reply = "moved"
  /\ req[r].task_id = id /\ req[r].current_position = np

PrevMove(r) ==
  [task_id |-> req[r].task_id, from |-> req[r].current_position,
   to |-> req[r].new_position, pre |-> base]

Init ==
  /\ tasks = [id \in TaskIds |-> NoTask]
  /\ projects = [p \in Projects |-> NewProject]
  /\ req = [r \in Reqs |-> IdleReq]
  /\ base = [id \in TaskIds |-> NoTask]
  /\ epi = 0
  /\ moves = 0
  /\ sent = 0
  /\ hist = NoHist
  /\ now = 1
  /\ posted = [m \in 1..MaxMsgs |-> NULL]

\* rows that exist, and inserts already decided on by running requests
Rows == {id \in TaskIds : Exists(tasks, id)}
PendingInserts == {r \in Reqs : req[r].pc = "create_commit"}

\* ------------------------------------------------- append: create_task
\* task_description_handler / skip_task_description_callback up to the
\* SELECT of create_task: next_order is read here, the INSERT comes later.
\* created_at = datetime.now(...) is read as the SELECT returns.
\* P: the projects tasks are added to, cap: the largest id let to be given.
StartCreate(r, P, cap) ==
  /\ Begin(r)
  /\ \E p \in P :
       /\ SetMax(Rows) + Cardinality(PendingInserts) < cap
       /\ NextOrder(tasks, p) <= MaxOrder
       /\ Set(r, Merge(IdleReq, [op |-> "create", pc |-> "create_commit",
                                 project_id |-> p,
                                 next_order |-> NextOrder(tasks, p),
                                 at |-> now]))
  /\ hist' = NoHist
  /\ UNCHANGED <<tasks, projects, moves, sent, now, posted>>

\* session.add(task); await session.commit()
CreateCommit(r) ==
  /\ req[r].pc = "create_commit"
  /\ LET id == FreshId(tasks) IN
       /\ tasks' = [tasks EXCEPT
                      ![id] = NewTask(req[r].project_id, req[r].next_order,
                                      req[r].at)]
       /\ Set(r, [pc |-> "sync_load", task_id |-> id, reply |-> "created",
                  writes |-> req[r].writes + 1])
  /\ UNCHANGED <<projects, base, epi, moves, sent, hist, now, posted>>

\* ---------------------------------------------------- delete: delete_task
\* delete_task_callback: get_task_by_id, the not-found return
StartDelete(r) ==
  /\ Begin(r)
  /\ \E id \in TaskIds :
       IF Exists(tasks, id)
       THEN Set(r, Merge(IdleReq, [op |-> "delete", pc |-> "delete_load",
                                  task_id |-> id,
                                  project_id |-> tasks[id].project_id,
                                  current_position |-> tasks[id].order_index]))
       ELSE Set(r, Merge(IdleReq, [op |-> "delete", pc |-> "done",
                                  task_id |-> id, reply |-> "not_found"]))
  /\ hist' = NoHist
  /\ UNCHANGED <<tasks, projects, moves, sent, now, posted>>

\* project = get_project_by_id(...): loaded before the delete
DeleteLoad(r) ==
  /\ req[r].pc = "delete_load"
  /\ Set(r, [pc |-> "delete_commit",
             channel_id |-> projects[req[r].project_id].channel_id,
             message_id |-> projects[req[r].project_id].message_id])
  /\ UNCHANGED <<tasks, projects, base, epi, moves, sent, hist, now, posted>>

\* TaskDAO.delete_task: DELETE FROM tasks WHERE id = task_id; commit.
\* No other row is written.
DeletedTable(T, id) == [T EXCEPT ![id] = NoTask]

Bound(r) == req[r].channel_id # NULL /\ req[r].message_id # NULL

DeleteCommit(r) ==
  /\ req[r].pc = "delete_commit"
  /\ tasks' = DeletedTable(tasks, req[r].task_id)
  /\ IF Bound(r)
     THEN Set(r, [pc |-> "sync_read", reply |-> "deleted",
                  writes |-> req[r].writes + 1])
     ELSE Finish(r, [reply |-> "deleted", writes |-> req[r].writes + 1])
  /\ UNCHANGED <<projects, base, epi, moves, sent, hist, now, posted>>

\* ------------------------------------------------------------ sync pass
\* mutant: the sync pass runs as soon as the project has a channel
HasBindingChannelOnly(row) == row.channel_id # NULL

\* mutant: the sync pass runs whether or not the project has a channel
HasBindingAlways(row) == TRUE

\* if project and project.channel_id and project.message_id and bot
HasBinding(row) == row.channel_id # NULL /\ row.message_id # NULL

\* project = await ProjectDAO.get_project_by_id(...) after the mutation,
\* and the test "project.channel_id and project.message_id"
SyncLoad(r) ==
  /\ req[r].pc = "sync_load"
  /\ LET p == projects[req[r].project_id] IN
       IF HasBinding(p)
       THEN Set(r, [pc |-> "sync_read",
                    channel_id |-> p.channel_id, message_id |-> p.message_id])
       ELSE Finish(r, [channel_id |-> p.channel_id,
                       message_id |-> p.message_id])
  /\ UNCHANGED <<tasks, projects, base, epi, moves, sent, hist, now, posted>>

\* mutant: the text is rendered from the rows the request started from
RenderedBeforeCommit(T, p) ==
  LET all == get_project_tasks(base, p) IN
    [k \in 1..Len(all) |->
       [id |-> all[k].id, status |-> base[all[k].id].status]]

\* format_roadmap_message(project, tasks), tasks as get_project_tasks gives
\* them: the task lines of the text, one per task in order_index order,
\* each the task (its title) and the emoji of its status
format_roadmap_message(T, p) ==
  LET all == get_project_tasks(T, p) IN
    [k \in 1..Len(all) |-> [id |-> all[k].id, status |-> T[all[k].id].status]]

\* format_roadmap_message: len([t for t in sorted_tasks if t.status == st])
StatusCount(T, p, st) ==
  Cardinality({id \in ProjectTaskIds(T, p) : T[id].status = st})

\* format_roadmap_message: the progress line, "<progress>%" and
\* "<completed_tasks>/<total_tasks>";
\* progress = int((completed_tasks / total_tasks) * 100) if total_tasks > 0
\* else 0
ProgressLine(T, p) ==
  LET total_tasks == Cardinality(ProjectTaskIds(T, p))
      completed_tasks == StatusCount(T, p, "completed")
  IN [progress |-> IF total_tasks > 0
                   THEN (completed_tasks * 100) \div total_tasks ELSE 0,
      completed_tasks |-> completed_tasks,
      total_tasks |-> total_tasks]

\* mutant: the statistics rows are printed for every status, whatever the
\* number of tasks
StatisticsRowsAlways(T, p) ==
  {[status |-> st, n |-> StatusCount(T, p, st)] : st \in Statuses}

\* format_roadmap_message: the statistics rows, printed if total_tasks > 0,
\* one for each status that has a task
StatisticsRows(T, p) ==
  IF Cardinality(ProjectTaskIds(T, p)) > 0
  THEN {[status |-> st, n |-> StatusCount(T, p, st)] :
          st \in {x \in Statuses : StatusCount(T, p, x) > 0}}
  ELSE {}

\* updated_tasks = await TaskDAO.get_project_tasks(...);
\* roadmap_text = format_roadmap_message(project, updated_tasks)
SyncRead(r) ==
  /\ req[r].pc = "sync_read"
  /\ Set(r, [pc |-> IF req[r].op = "update_channel"
                    THEN "upd_push" ELSE "sync_edit",
             text |-> format_roadmap_message(tasks, req[r].project_id),
             head |-> ProgressLine(tasks, req[r].project_id),
             stats |-> StatisticsRows(tasks, req[r].project_id),
             stamp |-> UpdatedLine(now)])
  /\ UNCHANGED <<tasks, projects, base, epi, moves, sent, hist, now, posted>>

\* What bot.edit_message_text can raise, each named for the Telegram error
\* and given as the phrases the handlers look for that its lower-cased
\* text contains:
\*   not_modified      Bad Request: message is not modified: ...
\*   edit_not_found    Bad Request: message to edit not found
\*   id_invalid        Bad Request: MESSAGE_ID_INVALID
\*   too_long          Bad Request: message is too long
\*   entity_too_large  Request Entity Too Large
\*   kicked            Forbidden: bot was kicked from the channel chat
\*   not_member        Forbidden: bot is not a member of the channel chat
\*   chat_not_found    Bad Request: chat not found
\*   no_rights         Bad Request: not enough rights to edit the message
\*   network           a timeout or a connection error
Phrases(err) ==
  CASE err = "not_modified" -> {"message is not modified"}
    [] err = "edit_not_found" -> {"bad request: message to edit not found"}
    [] err = "id_invalid" -> {"message_id_invalid"}
    [] err = "too_long" -> {}
    [] err = "entity_too_large" -> {"request entity too large"}
    [] err = "kicked" -> {"bot was kicked", "forbidden", "kicked from"}
    [] err = "not_member" -> {"forbidden", "bot is not a member"}
    [] err = "chat_not_found" -> {"chat not found"}
    [] err = "no_rights" -> {"not enough rights"}
    [] OTHER -> {}

Errors == {"not_modified", "edit_not_found", "id_invalid", "too_long",
           "entity_too_large", "kicked", "not_member", "chat_not_found",
           "no_rights", "network"}

\* what bot.send_message can raise: the errors that are not about a
\* message to edit
SendErrors == {"too_long", "entity_too_large", "kicked", "not_member",
               "chat_not_found", "no_rights", "network"}

\* "<phrase>" in str(e).lower()
Has(err, phrase) == phrase \in Phrases(err)

\* set_status_callback, except Exception as channel_error: the phrases
\* that unlink the channel
StatusUnlinkPhrases ==
  {"bot was kicked", "chat not found", "forbidden", "bot is not a member",
   "kicked from", "not enough rights"}

\* The except clause around the edit in each mutating handler:
\* whether the channel is removed from the project, and what the reply says.
EditUnlinks(op, err) ==
  op = "set_status" /\ \E ph \in StatusUnlinkPhrases : Has(err, ph)

EditNotice(op, err) ==
  CASE op \in {"create", "delete"} -> "warning"
    [] op = "move_pos" ->
         IF Has(err, "message is not modified") THEN "none" ELSE "warning"
    [] op \in {"move_up", "move_down"} -> "none"
    [] op = "set_status" ->
         IF EditUnlinks(op, err) THEN "unlinked" ELSE "warning"
    [] OTHER -> "none"

\* the text appended to the reply when the edit succeeds
EditOkNotice(op) ==
  IF op \in {"move_up", "move_down"} THEN "none" ELSE "updated"

\* ProjectDAO.remove_channel_from_project
Unlinked(row) == [row EXCEPT !.channel_id = NULL, !.message_id = NULL]

\* mutant: the rollback takes the rows back to where the request started
RollbackUndoes(T, B) == B

\* DatabaseMiddleware: await session.rollback() after a handler has raised.
\* Every write of the handler was committed by the DAO call that made it
\* (and by the autocommit connection), so the rows stay as they are.
\* T: the rows now, B: the rows the request started from.
Rollback(T, B) == T

\* history: another request has already edited the message since the
\* requests now in flight began, so that an edit of r made now replaces the
\* text that request pushed
Overwrites(r) ==
  \E q \in Reqs \ {r} :
    req[q].pc = "done" /\ req[q].edits = 1 /\ req[q].err = "ok"

\* await bot.edit_message_text(...) and the handler's except clause, then
\* the reply to the caller.  delivered = FALSE: sending the reply raised
\* and so did the answer of the handler's outer except, the exception
\* reached DatabaseMiddleware and the session was rolled back.
SyncEdit(r) ==
  /\ req[r].pc = "sync_edit"
  /\ \E out \in {"ok"} \cup Errors, delivered \in BOOLEAN :
       /\ IF out = "ok"
          THEN /\ Finish(r, [err |-> "ok", notice |-> EditOkNotice(req[r].op),
                             edits |-> req[r].edits + 1,
                             delivered |-> delivered,
                             over |-> Overwrites(r)])
               /\ UNCHANGED projects
          ELSE /\ Finish(r, [err |-> out, notice |-> EditNotice(req[r].op, out),
                             edits |-> req[r].edits + 1,
                             delivered |-> delivered])
               /\ projects' =
                    IF EditUnlinks(req[r].op, out)
                    THEN [projects EXCEPT ![req[r].project_id] = Unlinked(@)]
                    ELSE projects
       /\ tasks' = IF delivered THEN tasks ELSE Rollback(tasks, base)
  /\ UNCHANGED <<base, epi, moves, sent, hist, now, posted>>

\* --------------------------------------------- move: move_task_to_position
\* mutant: the upper bound of the range check is off by one
PositionInvalidOffByOne(new_position, n) ==
  new_position < 1 \/ new_position > n + 1

\* if new_position < 1 or new_position > len(all_tasks)
PositionInvalid(new_position, n) == new_position < 1 \/ new_position > n

\* mutant: moving backward, the row at new_position is not shifted
NewOrderOfKeepsTarget(t, task_id, current_position, new_position) ==
  IF current_position < new_position
  THEN IF t.id = task_id THEN new_position
       ELSE IF t.order_index <= current_position THEN t.order_index
       ELSE IF t.order_index <= new_position THEN t.order_index - 1
       ELSE t.order_index
  ELSE IF t.id = task_id THEN new_position
       ELSE IF t.order_index <= new_position THEN t.order_index
       ELSE IF t.order_index < current_position THEN t.order_index + 1
       ELSE t.order_index

\* mutant: moving forward, the rows up to new_position are not shifted
NewOrderOfNoShiftDown(t, task_id, current_position, new_position) ==
  IF current_position < new_position
  THEN IF t.id = task_id THEN new_position ELSE t.order_index
  ELSE IF t.id = task_id THEN new_position
       ELSE IF t.order_index < new_position THEN t.order_index
       ELSE IF t.order_index < current_position THEN t.order_index + 1
       ELSE t.order_index

\* mutant: only the moved row is written, the others keep their order_index
NewOrderOfKeepsOthers(t, task_id, current_position, new_position) ==
  IF t.id = task_id THEN new_position ELSE t.order_index

\* mutant: moving forward, the rows up to new_position are shifted up
NewOrderOfShiftsWrongWay(t, task_id, current_position, new_position) ==
  IF current_position < new_position
  THEN IF t.id = task_id THEN new_position
       ELSE IF t.order_index <= current_position THEN t.order_index
       ELSE IF t.order_index <= new_position THEN t.order_index + 1
       ELSE t.order_index
  ELSE IF t.id = task_id THEN new_position
       ELSE IF t.order_index < new_position THEN t.order_index
       ELSE IF t.order_index < current_position THEN t.order_index + 1
       ELSE t.order_index

\* the second (effective) definition of move_task_to_position:
\* the new order_index of row t of all_tasks
NewOrderOf(t, task_id, current_position, new_position) ==
  IF current_position < new_position
  THEN IF t.id = task_id THEN new_position
       ELSE IF t.order_index <= current_position THEN t.order_index
       ELSE IF t.order_index <= new_position THEN t.order_index - 1
       ELSE t.order_index
  ELSE IF t.id = task_id THEN new_position
       ELSE IF t.order_index < new_position THEN t.order_index
       ELSE IF t.order_index < current_position THEN t.order_index + 1
       ELSE t.order_index

\* update(Task).where(Task.id == id).values(order_index = v):
\* a row that is gone is not written
UpdateOrder(T, id, v) ==
  IF Exists(T, id) THEN [T EXCEPT ![id].order_index = v] ELSE T

\* move_task_position_handler:
\* if new_position < 1 or new_position > len(tasks)
HandlerRangeCheck(new_position, n) == new_position < 1 \/ new_position > n

\* move_task_position_handler: the position typed by the user, the task
\* and project remembered by move_task_to_callback, the handler's own range
\* check against get_project_tasks
StartMovePos(r, seq) ==
  /\ Begin(r)
  /\ IF seq THEN moves' = moves
            ELSE moves < ConcMoves /\ moves' = moves + 1
  /\ \E id \in TaskIds, np \in 0..(MaxTasks + 1), pr \in Projects :
       /\ Exists(tasks, id) => pr = tasks[id].project_id
       /\ ~Exists(tasks, id) => pr = 1
       /\ hist' = IF Undoes(r, seq, id, np) THEN PrevMove(r) ELSE NoHist
       /\ LET n == Len(get_project_tasks(tasks, pr)) IN
            IF HandlerRangeCheck(np, n)
            THEN Set(r, Merge(IdleReq, [op |-> "move_pos", pc |-> "done",
                                       task_id |-> id, project_id |-> pr,
                                       new_position |-> np,
                                       reply |-> "rejected"]))
            ELSE Set(r, Merge(IdleReq, [op |-> "move_pos", pc |-> "move_get",
                                       task_id |-> id, project_id |-> pr,
                                       new_position |-> np]))
  /\ UNCHANGED <<tasks, projects, sent, now, posted>>

\* move_task_up_callback: get_task_by_id, "already at the top",
\* new_position = current_order - 1
StartMoveUp(r) ==
  /\ Begin(r)
  /\ hist' = NoHist
  /\ moves' = moves
  /\ sent' = sent
  /\ \E id \in TaskIds :
       IF ~Exists(tasks, id)
       THEN Set(r, Merge(IdleReq, [op |-> "move_up", pc |-> "done",
                                  task_id |-> id, reply |-> "not_found"]))
       ELSE IF tasks[id].order_index <= 1
       THEN Set(r, Merge(IdleReq, [op |-> "move_up", pc |-> "done",
                                  task_id |-> id,
                                  project_id |-> tasks[id].project_id,
                                  reply |-> "rejected"]))
       ELSE Set(r, Merge(IdleReq, [op |-> "move_up", pc |-> "move_get",
                                  task_id |-> id,
                                  project_id |-> tasks[id].project_id,
                                  new_position |-> tasks[id].order_index - 1]))
  /\ UNCHANGED <<tasks, projects, sent, now, posted>>

\* move_task_down_callback: get_task_by_id
StartMoveDown(r) ==
  /\ Begin(r)
  /\ hist' = NoHist
  /\ moves' = moves
  /\ sent' = sent
  /\ \E id \in TaskIds :
       IF ~Exists(tasks, id)
       THEN Set(r, Merge(IdleReq, [op |-> "move_down", pc |-> "done",
                                  task_id |-> id, reply |-> "not_found"]))
       ELSE Set(r, Merge(IdleReq, [op |-> "move_down", pc |-> "down_count",
                                  task_id |-> id,
                                  project_id |-> tasks[id].project_id,
                                  current_position |-> tasks[id].order_index]))
  /\ UNCHANGED <<tasks, projects, sent, now, posted>>

\* move_task_down_callback: max_position = len(get_project_tasks(...)),
\* "already at the bottom", new_position = current_order + 1
DownCount(r) ==
  /\ req[r].pc = "down_count"
  /\ LET n == Len(get_project_tasks(tasks, req[r].project_id)) IN
       IF req[r].current_position >= n
       THEN Finish(r, [reply |-> "rejected"])
       ELSE Set(r, [pc |-> "move_get",
                    new_position |-> req[r].current_position + 1])
  /\ UNCHANGED <<tasks, projects, base, epi, moves, sent, hist, now, posted>>

\* move_task_to_position: task = get_task_by_id(...), return False if gone,
\* project_id and current_position taken from the row
MoveGet(r) ==
  /\ req[r].pc = "move_get"
  /\ LET id == req[r].task_id IN
       IF ~Exists(tasks, id)
       THEN Finish(r, [reply |-> "failed"])
       ELSE Set(r, [pc |-> "move_select",
                    project_id |-> tasks[id].project_id,
                    current_position |-> tasks[id].order_index])
  /\ UNCHANGED <<tasks, projects, base, epi, moves, sent, hist, now, posted>>

\* current_position == new_position: return True before any write
SamePosition(current_position, new_position) ==
  current_position = new_position

\* move_task_to_position: all_tasks = select ... order_by(order_index),
\* the range check, the same-position return
MoveSelect(r) ==
  /\ req[r].pc = "move_select"
  /\ LET all == get_project_tasks(tasks, req[r].project_id) IN
       IF PositionInvalid(req[r].new_position, Len(all))
       THEN Finish(r, [reply |-> "failed"])
       ELSE IF SamePosition(req[r].current_position, req[r].new_position)
       THEN Set(r, [pc |-> "sync_load", reply |-> "moved"])
       ELSE Set(r, [pc |-> "move_update", all_tasks |-> all, i |-> 1])
  /\ UNCHANGED <<tasks, projects, base, epi, moves, sent, hist, now, posted>>

\* one turn of "for i, t in enumerate(all_tasks)": the UPDATE of row t
MoveUpdate(r) ==
  /\ req[r].pc = "move_update"
  /\ LET t == req[r].all_tasks[req[r].i]
         v == NewOrderOf(t, req[r].task_id, req[r].current_position,
                         req[r].new_position)
     IN
       /\ tasks' = UpdateOrder(tasks, t.id, v)
       /\ Set(r, [pc |-> IF req[r].i = Len(req[r].all_tasks)
                         THEN "move_commit" ELSE "move_update",
                  i |-> req[r].i + 1,
                  writes |-> req[r].writes + 1])
  /\ UNCHANGED <<projects, base, epi, moves, sent, hist, now, posted>>

\* await session.commit(); the result_after read; return True
MoveCommit(r) ==
  /\ req[r].pc = "move_commit"
  /\ Set(r, [pc |-> "sync_load", reply |-> "moved",
             all_tasks |-> << >>, i |-> 0])
  /\ UNCHANGED <<tasks, projects, base, epi, moves, sent, hist, now, posted>>

\* move_task_to_position run from start to end with no other request in
\* between: the table it leaves
MoveTask(T, task_id, new_position) ==
  IF ~Exists(T, task_id) THEN T
  ELSE LET p == T[task_id].project_id
           cur == T[task_id].order_index
           all == get_project_tasks(T, p)
       IN IF PositionInvalid(new_position, Len(all)) THEN T
          ELSE IF SamePosition(cur, new_position) THEN T
          ELSE [id \in TaskIds |->
                 IF T[id].project_id = p
                 THEN [T[id] EXCEPT !.order_index =
                         NewOrderOf([id |-> id, order_index |-> T[id].order_index],
                                    task_id, cur, new_position)]
                 ELSE T[id]]

\* ------------------------------------------- status: update_task_status
\* mutant: every status asked for is taken as valid
ValidStatusAny(status) == TRUE

\* valid_statuses of update_task_status
ValidStatus(status) == status \in Statuses

\* mutant: update_task_status goes on when the task is not there
TaskMissingNever(T, id) == FALSE

\* update_task_status: task = get_task_by_id(...); if not task: return False
TaskMissing(T, id) == ~Exists(T, id)

\* set_status_callback up to the UPDATE of update_task_status: the status
\* named by the button, the validity test, get_task_by_id.
\* S: the statuses asked for.
StartSetStatus(r, S) ==
  /\ Begin(r)
  /\ hist' = NoHist
  /\ moves' = moves
  /\ \E id \in TaskIds, st \in S :
       IF ~ValidStatus(st) \/ TaskMissing(tasks, id)
       THEN Set(r, Merge(IdleReq, [op |-> "set_status", pc |-> "done",
                                  task_id |-> id, new_status |-> st,
                                  reply |-> "failed"]))
       ELSE Set(r, Merge(IdleReq, [op |-> "set_status", pc |-> "status_commit",
                                  task_id |-> id, new_status |-> st,
                                  at |-> now]))
  /\ UNCHANGED <<tasks, projects, sent, now, posted>>

\* timedelta.days of a span of delta ticks
Days(delta) == delta \div TicksPerDay

\* mutant: actual_days is the whole days elapsed, with no floor of 1
ActualDaysNoFloor(created_at, completed_at) == Days(completed_at - created_at)

\* actual_days = (completed_at - created_at).days; max(actual_days, 1)
ActualDays(created_at, completed_at) ==
  LET actual_days == Days(completed_at - created_at)
  IN IF actual_days > 1 THEN actual_days ELSE 1

\* mutant: the UPDATE also moves the row to the end of its project
UpdateDataReorders(row, st, at) ==
  [row EXCEPT !.status = st, !.order_index = @ + 1]

\* update_data: status always; completed_at and actual_days only
\* "if status == 'completed'", whatever the status of the row is
UpdateData(row, st, at) ==
  IF st = "completed"
  THEN [row EXCEPT !.status = st, !.completed_at = at,
                   !.actual_days = ActualDays(row.created_at, at)]
  ELSE [row EXCEPT !.status = st]

\* update(Task).where(Task.id == task_id).values(**update_data); commit.
\* at: the time read when get_task_by_id returned.
UpdateStatus(T, id, st, at) ==
  IF Exists(T, id) THEN [T EXCEPT ![id] = UpdateData(@, st, at)] ELSE T

StatusCommit(r) ==
  /\ req[r].pc = "status_commit"
  /\ tasks' = UpdateStatus(tasks, req[r].task_id, req[r].new_status,
                           req[r].at)
  /\ Set(r, [pc |-> "status_check", writes |-> req[r].writes + 1])
  /\ UNCHANGED <<projects, base, epi, moves, sent, hist, now, posted>>

\* task_after = get_task_by_id(...); "status did not change"; a row that is
\* gone raises AttributeError, caught by the handler's outer except
StatusCheck(r) ==
  /\ req[r].pc = "status_check"
  /\ LET id == req[r].task_id IN
       IF ~Exists(tasks, id)
       THEN Finish(r, [reply |-> "error"])
       ELSE IF tasks[id].status # req[r].new_status
       THEN Finish(r, [reply |-> "unchanged"])
       ELSE Set(r, [pc |-> "sync_load", reply |-> "status_set",
                    project_id |-> tasks[id].project_id])
  /\ UNCHANGED <<tasks, projects, base, epi, moves, sent, hist, now, posted>>

\* ------------------------------------------- binding: channel_id_handler
\* channel_id_handler: the format test of the text, then
\* ProjectDAO.update_project(channel_id = ...).  c = NULL stands for a text
\* that is not a channel id.  P: the projects bound, C: the channels named.
StartSetChannel(r, P, C) ==
  /\ Begin(r)
  /\ hist' = NoHist
  /\ moves' = moves
  /\ \E p \in P, c \in C \cup {NULL} :
       IF c = NULL
       THEN /\ Set(r, Merge(IdleReq, [op |-> "set_channel", pc |-> "done",
                                     project_id |-> p, reply |-> "bad_format"]))
            /\ UNCHANGED projects
       ELSE /\ Set(r, Merge(IdleReq, [op |-> "set_channel", pc |-> "chan_send",
                                     project_id |-> p, channel_id |-> c]))
            /\ projects' = [projects EXCEPT ![p].channel_id = c]
  /\ UNCHANGED <<tasks, sent, now, posted>>

\* bot.send_message(chat_id = channel_id, ...): the message sent, if one
\* was (the counter of messages went from before to after), is in the
\* channel it was sent to
Posted(before, after, channel_id) ==
  IF after > before THEN [posted EXCEPT ![after] = channel_id] ELSE posted

\* ProjectDAO.update_roadmap_message
WithMessage(row, message_id) == [row EXCEPT !.message_id = message_id]

\* channel_id_handler: bot.send_message, update_roadmap_message with the id
\* of the message sent; an exception ends the handler with the error reply
ChanSend(r) ==
  /\ req[r].pc = "chan_send"
  /\ \E out \in {"ok"} \cup SendErrors :
       IF out = "ok" /\ sent < MaxMsgs
       THEN /\ sent' = sent + 1
            /\ projects' = [projects EXCEPT
                              ![req[r].project_id] = WithMessage(@, sent + 1)]
            /\ Finish(r, [err |-> "ok", message_id |-> sent + 1,
                          reply |-> "configured", sends |-> 1])
       ELSE /\ out # "ok"
            /\ Finish(r, [err |-> out, reply |-> "error", sends |-> 1])
            /\ UNCHANGED <<projects, sent>>
  /\ posted' = Posted(sent, sent', req[r].channel_id)
  /\ UNCHANGED <<tasks, base, epi, moves, hist, now>>

\* --------------------------------- manual update: update_channel_callback
\* update_channel_callback: get_project_by_id, "channel not configured"
StartUpdateChannel(r, P) ==
  /\ Begin(r)
  /\ hist' = NoHist
  /\ moves' = moves
  /\ \E p \in P :
       IF projects[p].channel_id = NULL
       THEN Set(r, Merge(IdleReq, [op |-> "update_channel", pc |-> "done",
                                  project_id |-> p, reply |-> "no_channel"]))
       ELSE Set(r, Merge(IdleReq, [op |-> "update_channel", pc |-> "chan_check",
                                  project_id |-> p,
                                  channel_id |-> projects[p].channel_id,
                                  message_id |-> projects[p].message_id]))
  /\ UNCHANGED <<tasks, projects, sent, now, posted>>

\* the statuses check_bot_in_channel returns
CheckStatuses == {"ok", "kicked", "left", "no_rights", "member", "unknown",
                  "not_found", "error"}

\* what bot.get_chat_member gives check_bot_in_channel: the bot's member
\* status (an administrator with or without can_edit_messages), or one of
\* the errors it raises
MemberStatuses == {"kicked", "left", "administrator_can_edit",
                   "administrator", "creator", "member", "restricted"}
CheckErrors == {"kicked", "not_member", "chat_not_found", "network"}

\* check_bot_in_channel: the status returned for a member status
StatusOfMember(m) ==
  CASE m = "kicked" -> "kicked"
    [] m = "left" -> "left"
    [] m = "administrator_can_edit" -> "ok"
    [] m \in {"administrator", "creator"} -> "no_rights"
    [] m = "member" -> "member"
    [] OTHER -> "unknown"

\* check_bot_in_channel, except Exception as e: the status returned
StatusOfError(err) ==
  IF Has(err, "bot was kicked") \/ Has(err, "forbidden") THEN "kicked"
  ELSE IF Has(err, "chat not found") THEN "not_found"
  ELSE "error"

\* channel_status = await check_bot_in_channel(...): any status but "ok"
\* removes the channel from the project.  raised: get_chat_member raised.
ChanCheck(r) ==
  /\ req[r].pc = "chan_check"
  /\ \E raised \in BOOLEAN, out \in MemberStatuses \cup CheckErrors :
       /\ IF raised THEN out \in CheckErrors ELSE out \in MemberStatuses
       /\ LET st == IF raised THEN StatusOfError(out) ELSE StatusOfMember(out)
          IN IF st = "ok"
             THEN /\ Set(r, [pc |-> "sync_read", check |-> st])
                  /\ UNCHANGED projects
             ELSE /\ Finish(r, [reply |-> "unlinked", notice |-> "unlinked",
                                check |-> st,
                                err |-> IF raised THEN out ELSE "none"])
                  /\ projects' =
                       [projects EXCEPT ![req[r].project_id] = Unlinked(@)]
  /\ UNCHANGED <<tasks, base, epi, moves, sent, hist, now, posted>>

\* update_channel_callback, except Exception as e: the branch taken
UpdateBranch(err) ==
  IF Has(err, "message is not modified") THEN "actual"
  ELSE IF \/ Has(err, "message not found")
          \/ Has(err, "message_id_invalid")
          \/ Has(err, "bad request: message to edit not found")
       THEN "unlink"
  ELSE IF Has(err, "message too long") \/ Has(err, "request entity too large")
       THEN "recreate"
  ELSE "error"

\* update_channel_callback: edit_message_text when the project has a
\* message, send_message when it has none, and the except clause.
\* resend: whether the send_message of the too-large branch succeeds.
UpdatePush(r) ==
  /\ req[r].pc = "upd_push"
  /\ \E out \in {"ok"} \cup Errors, resend \in BOOLEAN :
       LET p == req[r].project_id
           branch == UpdateBranch(out)
           e == IF req[r].message_id # NULL THEN 1 ELSE 0
           calls == [edits |-> e, sends |-> 1 - e]
           again == [edits |-> e, sends |-> 2 - e]
       IN
         IF req[r].message_id = NULL /\ out \notin {"ok"} \cup SendErrors
         THEN FALSE
         ELSE IF out = "ok" /\ req[r].message_id # NULL
         THEN /\ Finish(r, calls @@ [err |-> "ok", reply |-> "updated",
                                     notice |-> "updated"])
              /\ UNCHANGED <<projects, sent>>
         ELSE IF out = "ok"
         THEN /\ sent < MaxMsgs
              /\ sent' = sent + 1
              /\ projects' = [projects EXCEPT ![p] = WithMessage(@, sent + 1)]
              /\ Finish(r, calls @@ [err |-> "ok", reply |-> "sent",
                                     notice |-> "sent"])
         ELSE IF branch = "actual"
         THEN /\ Finish(r, calls @@ [err |-> out, reply |-> "actual",
                                     notice |-> "none"])
              /\ UNCHANGED <<projects, sent>>
         ELSE IF branch = "unlink"
         THEN /\ Finish(r, calls @@ [err |-> out, reply |-> "unlinked",
                                     notice |-> "unlinked"])
              /\ projects' = [projects EXCEPT ![p] = Unlinked(@)]
              /\ sent' = sent
         ELSE IF branch = "recreate" /\ resend /\ sent < MaxMsgs
         THEN /\ sent' = sent + 1
              /\ projects' = [projects EXCEPT ![p] = WithMessage(@, sent + 1)]
              /\ Finish(r, again @@ [err |-> out, reply |-> "recreated",
                                     notice |-> "recreated"])
         ELSE IF branch = "recreate"
         THEN /\ Finish(r, again @@ [err |-> out, reply |-> "unlinked",
                                     notice |-> "unlinked"])
              /\ projects' = [projects EXCEPT ![p] = Unlinked(@)]
              /\ sent' = sent
         ELSE /\ Finish(r, calls @@ [err |-> out, reply |-> "error",
                                     notice |-> "error"])
              /\ UNCHANGED <<projects, sent>>
  /\ posted' = Posted(sent, sent', req[r].channel_id)
  /\ UNCHANGED <<tasks, base, epi, moves, hist, now>>

\* move_task_to_position run from start to end with no other request in
\* between: the value it returns
MoveResult(T, task_id, new_position) ==
  IF ~Exists(T, task_id) THEN FALSE
  ELSE LET all == get_project_tasks(T, T[task_id].project_id)
       IN ~PositionInvalid(new_position, Len(all))

\* session.execute(update(Task)...) raises inside the loop of
\* move_task_to_position after one UPDATE or more has run (the storage
\* fails: disk I/O error, database is locked).  Nothing in
\* move_task_to_position catches it; the handler's outer except answers
\* with the error and returns, and DatabaseMiddleware commits the session.
\* delivered = FALSE: the answer raised as well and the middleware rolled
\* the session back.
MoveFail(r) ==
  /\ req[r].pc = "move_update"
  /\ req[r].i > 1
  /\ \E delivered \in BOOLEAN :
       /\ tasks' = IF delivered THEN tasks ELSE Rollback(tasks, base)
       /\ Finish(r, [reply |-> "error", err |-> "storage",
                     delivered |-> delivered])
  /\ UNCHANGED <<projects, base, epi, moves, sent, hist, now, posted>>

\* mutant: delete_project also takes the channel off the project
DeactivatedAndUnlinked(row) ==
  [row EXCEPT !.is_active = FALSE, !.channel_id = NULL, !.message_id = NULL]

\* ProjectDAO.delete_project:
\* update(Project).where(Project.id == project_id).values(is_active=False)
Deactivated(row) == [row EXCEPT !.is_active = FALSE]

\* delete_project_callback: project = get_project_by_id(...)
\* P: the projects deleted.
StartDeleteProject(r, P) ==
  /\ Begin(r)
  /\ hist' = NoHist
  /\ \E p \in P :
       Set(r, Merge(IdleReq, [op |-> "delete_project", pc |-> "project_commit",
                             project_id |-> p,
                             channel_id |-> projects[p].channel_id,
                             message_id |-> projects[p].message_id]))
  /\ UNCHANGED <<tasks, projects, moves, sent, now, posted>>

\* await ProjectDAO.delete_project(session, project_id): the one UPDATE of
\* the project row, commit; no statement names the table tasks.  Then the
\* reply "project deleted".
DeleteProjectCommit(r) ==
  /\ req[r].pc = "project_commit"
  /\ projects' = [projects EXCEPT ![req[r].project_id] = Deactivated(@)]
  /\ Finish(r, [reply |-> "project_deleted", writes |-> req[r].writes + 1])
  /\ UNCHANGED <<tasks, base, epi, moves, sent, hist, now, posted>>

\* show_roadmap_callback: project = get_project_by_id(...)
\* P: the projects shown.
StartShow(r, P) ==
  /\ Begin(r)
  /\ hist' = NoHist
  /\ \E p \in P :
       Set(r, Merge(IdleReq, [op |-> "show", pc |-> "show_read",
                             project_id |-> p]))
  /\ UNCHANGED <<tasks, projects, moves, sent, now, posted>>

\* tasks = await TaskDAO.get_project_tasks(...);
\* roadmap_text = format_roadmap_message(project, tasks); the text is
\* shown to the caller.  all_tasks keeps the tasks the text was made from.
ShowRead(r) ==
  /\ req[r].pc = "show_read"
  /\ Set(r, [pc |-> "done", reply |-> "shown",
             all_tasks |-> get_project_tasks(tasks, req[r].project_id),
             text |-> format_roadmap_message(tasks, req[r].project_id),
             head |-> ProgressLine(tasks, req[r].project_id),
             stats |-> StatisticsRows(tasks, req[r].project_id),
             stamp |-> UpdatedLine(now)])
  /\ UNCHANGED <<tasks, projects, base, epi, moves, sent, hist, now, posted>>

\* time passes: the clock datetime.now() reads moves on by one tick
Tick ==
  /\ now < MaxTick
  /\ now' = now + 1
  /\ UNCHANGED <<tasks, projects, req, base, epi, moves, sent, hist, posted>>

\* ------------------------------------------------------- specifications
\* One request at a time, the ordering operations only; no project has a
\* channel, so the sync pass ends at its test of the binding.
OrdNext ==
  \/ StartCreate(1, {1}, MaxTasks)
  \/ CreateCommit(1)
  \/ StartDelete(1)
  \/ DeleteLoad(1)
  \/ DeleteCommit(1)
  \/ StartMovePos(1, TRUE)
  \/ StartMoveUp(1)
  \/ StartMoveDown(1)
  \/ DownCount(1)
  \/ MoveGet(1)
  \/ MoveSelect(1)
  \/ MoveUpdate(1)
  \/ MoveCommit(1)
  \/ SyncLoad(1)

SpecOrd == Init /\ [][OrdNext]_vars

\* Requests in flight together, as the dispatcher runs every update in its
\* own task: tasks are added and moved by position in one project.
ConcNext ==
  \E r \in Reqs :
    \/ StartCreate(r, {1}, MaxTasks)
    \/ CreateCommit(r)
    \/ StartMovePos(r, FALSE)
    \/ MoveGet(r)
    \/ MoveSelect(r)
    \/ MoveUpdate(r)
    \/ MoveCommit(r)
    \/ SyncLoad(r)

SpecConc == Init /\ [][ConcNext]_vars

\* One request at a time on one project that can be bound to a channel:
\* every handler that changes the roadmap and then pushes it to the channel
\* message, the binding and the manual update.
SyncNext ==
  \/ StartCreate(1, {1}, SyncTasks)
  \/ CreateCommit(1)
  \/ StartDelete(1)
  \/ DeleteLoad(1)
  \/ DeleteCommit(1)
  \/ StartMovePos(1, TRUE)
  \/ StartMoveUp(1)
  \/ StartMoveDown(1)
  \/ DownCount(1)
  \/ MoveGet(1)
  \/ MoveSelect(1)
  \/ MoveUpdate(1)
  \/ MoveCommit(1)
  \/ StartSetStatus(1, {"completed"})
  \/ StatusCommit(1)
  \/ StatusCheck(1)
  \/ StartSetChannel(1, {1}, Channels)
  \/ ChanSend(1)
  \/ StartUpdateChannel(1, {1})
  \/ ChanCheck(1)
  \/ SyncLoad(1)
  \/ SyncRead(1)
  \/ SyncEdit(1)
  \/ UpdatePush(1)

SpecSync == Init /\ [][SyncNext]_vars

\* One request at a time: tasks are added and their status is set to any of
\* the four statuses, as the buttons of update_task_callback ask
\* (set_status_<task_id>_<status>), or to a status that is none of them,
\* as callback data written by hand can ask; time passes; no project has a
\* channel.
StatusNext ==
  \/ StartCreate(1, {1}, SyncTasks)
  \/ CreateCommit(1)
  \/ StartSetStatus(1, Statuses \cup {"archived"})
  \/ StatusCommit(1)
  \/ StatusCheck(1)
  \/ SyncLoad(1)
  \/ Tick

SpecStatus == Init /\ [][StatusNext]_vars

\* One request at a time: tasks are added and moved by position, and the
\* storage can fail inside the loop of a move.
FailNext ==
  \/ StartCreate(1, {1}, MaxTasks)
  \/ CreateCommit(1)
  \/ StartMovePos(1, TRUE)
  \/ MoveGet(1)
  \/ MoveSelect(1)
  \/ MoveUpdate(1)
  \/ MoveFail(1)
  \/ MoveCommit(1)
  \/ SyncLoad(1)

SpecFail == Init /\ [][FailNext]_vars

\* Two requests in flight together on two projects: request 1 moves tasks
\* by position, request 2 adds tasks to either project and deletes tasks.
CrossNext ==
  \/ StartMovePos(1, FALSE)
  \/ MoveGet(1)
  \/ MoveSelect(1)
  \/ MoveUpdate(1)
  \/ MoveCommit(1)
  \/ StartCreate(2, Projects, SyncTasks)
  \/ CreateCommit(2)
  \/ StartDelete(2)
  \/ DeleteLoad(2)
  \/ DeleteCommit(2)
  \/ \E r \in Reqs : SyncLoad(r)

SpecCross == Init /\ [][CrossNext]_vars

\* One request at a time on two projects: tasks are added and deleted,
\* project 1 is bound to a channel, projects are deleted.
ProjNext ==
  \/ StartCreate(1, Projects, SyncTasks)
  \/ CreateCommit(1)
  \/ StartDelete(1)
  \/ DeleteLoad(1)
  \/ DeleteCommit(1)
  \/ StartSetChannel(1, {1}, Channels)
  \/ ChanSend(1)
  \/ StartDeleteProject(1, Projects)
  \/ DeleteProjectCommit(1)
  \/ SyncLoad(1)
  \/ SyncRead(1)
  \/ SyncEdit(1)

SpecProj == Init /\ [][ProjNext]_vars

\* Two requests in flight together: tasks are added to project 1, the
\* roadmap of project 1 is shown, time passes.
ShowNext ==
  \/ StartCreate(1, {1}, SyncTasks)
  \/ CreateCommit(1)
  \/ SyncLoad(1)
  \/ \E r \in Reqs : StartShow(r, {1})
  \/ \E r \in Reqs : ShowRead(r)
  \/ Tick

SpecShow == Init /\ [][ShowNext]_vars

\* the channels named in the runs that bind a project again
BindChannels == 1..(NumChannels + 1)

\* One request at a time on one project: the project is bound to a channel
\* and bound again, to the same channel or to another; tasks are added.
BindNext ==
  \/ StartCreate(1, {1}, SyncTasks)
  \/ CreateCommit(1)
  \/ StartSetChannel(1, {1}, BindChannels)
  \/ ChanSend(1)
  \/ SyncLoad(1)
  \/ SyncRead(1)
  \/ SyncEdit(1)

SpecBind == Init /\ [][BindNext]_vars

\* Two requests in flight together on project 1: request 1 binds the
\* project to a channel and adds tasks, request 2 completes tasks, and each
\* runs its sync pass.
RaceNext ==
  \/ StartSetChannel(1, {1}, Channels)
  \/ ChanSend(1)
  \/ StartCreate(1, {1}, SyncTasks)
  \/ CreateCommit(1)
  \/ StartSetStatus(2, {"completed"})
  \/ StatusCommit(2)
  \/ StatusCheck(2)
  \/ \E r \in Reqs : SyncLoad(r)
  \/ \E r \in Reqs : SyncRead(r)
  \/ \E r \in Reqs : SyncEdit(r)

SpecRace == Init /\ [][RaceNext]_vars

\* ------------------------------------------------------------ properties
Count(T, p) == Cardinality(ProjectTaskIds(T, p))

\* the order_index values of project p are exactly 1..N, each used once
Contiguous(T, p) ==
  /\ {T[id].order_index : id \in ProjectTaskIds(T, p)} = 1..Count(T, p)
  /\ \A a, b \in ProjectTaskIds(T, p) :
       T[a].order_index = T[b].order_index => a = b

Done(r, op) == req[r].pc = "done" /\ req[r].op = op

\* C1 (as claimed): whenever no request is running, the order_index values
\* of every project's tasks are exactly 1..N, without gaps or duplicates.
C1_PositionsAreOneToN ==
  (\A r \in Reqs : Idle(r)) => \A p \in Projects : Contiguous(tasks, p)

\* C2 (as claimed): a finished delete has removed the task and has
\* decremented by 1 the order_index of every remaining task of the project
\* that was above the deleted one; the tasks below keep theirs.
C2_DeleteRenumbers ==
  \A r \in Reqs :
    (Done(r, "delete") /\ req[r].reply = "deleted") =>
      LET d == req[r].task_id IN
        /\ ~Exists(tasks, d)
        /\ \A id \in ProjectTaskIds(base, base[d].project_id) \ {d} :
             tasks[id].order_index =
               IF base[id].order_index > base[d].order_index
               THEN base[id].order_index - 1
               ELSE base[id].order_index

\* the positions the spec gives after move(task, p) from table B
MovedTo(B, task, p, id) ==
  LET old == B[task].order_index
      b == B[id].order_index
  IN IF id = task THEN p
     ELSE IF old < p /\ old < b /\ b <= p THEN b - 1
     ELSE IF p < old /\ p <= b /\ b < old THEN b + 1
     ELSE b

\* C3 (as claimed): when two moves of one project have run together and both
\* have finished, the table is the one that running them one after the
\* other, in one of the two orders, gives.
C3_ConcurrentMovesSerialize ==
  (/\ epi = 2
   /\ \A r \in {1, 2} : Done(r, "move_pos")
   /\ Exists(base, req[1].task_id) /\ Exists(base, req[2].task_id)
   /\ base[req[1].task_id].project_id = base[req[2].task_id].project_id)
  => \/ tasks = MoveTask(MoveTask(base, req[1].task_id, req[1].new_position),
                         req[2].task_id, req[2].new_position)
     \/ tasks = MoveTask(MoveTask(base, req[2].task_id, req[2].new_position),
                         req[1].task_id, req[1].new_position)

\* C4 (as claimed): the rows another request reads while a move is between
\* its first UPDATE and its commit are the rows before the move or the rows
\* after it.  Request q has just read all_tasks and has written nothing;
\* request r, the only one to write since base, is inside its loop.
C4_MoveSeenWhole ==
  \A r, q \in Reqs :
    (/\ r # q /\ epi = 2
     /\ req[r].op = "move_pos" /\ req[r].pc \in {"move_update", "move_commit"}
     /\ req[q].op = "move_pos" /\ req[q].pc = "move_update"
     /\ req[q].i = 1 /\ req[q].writes = 0
     /\ req[q].project_id = req[r].project_id)
    => \/ req[q].all_tasks = get_project_tasks(base, req[r].project_id)
       \/ req[q].all_tasks =
            get_project_tasks(
              MoveTask(base, req[r].task_id, req[r].new_position),
              req[r].project_id)

\* C5: a move that succeeded from contiguous positions 1..N, to a position
\* p other than the task's own, leaves the task at p, has shifted by one the
\* tasks between the old and the new position (down when moving forward, up
\* when moving backward) and has left every other task where it was.
C5_MoveReindexes ==
  \A r \in Reqs :
    (/\ req[r].pc = "done" /\ req[r].op \in MoveOps
     /\ req[r].reply = "moved"
     /\ Contiguous(base, req[r].project_id)
     /\ req[r].new_position # base[req[r].task_id].order_index) =>
      \A id \in TaskIds :
        /\ tasks[id].project_id = base[id].project_id
        /\ Exists(base, id) /\ base[id].project_id = req[r].project_id =>
             tasks[id].order_index =
               MovedTo(base, req[r].task_id, req[r].new_position, id)

\* C5 witness: move(C, 1) on [A, B, C] has given [C, A, B]
C5_Witness ==
  \E r \in Reqs :
    /\ Done(r, "move_pos") /\ req[r].reply = "moved"
    /\ Contiguous(base, req[r].project_id)
    /\ Count(base, req[r].project_id) = 3
    /\ base[req[r].task_id].order_index = 3
    /\ req[r].new_position = 1
    /\ tasks[req[r].task_id].order_index = 1
    /\ \A id \in ProjectTaskIds(base, req[r].project_id) \ {req[r].task_id} :
         tasks[id].order_index = base[id].order_index + 1

\* the request asked move_task_to_position (or the handler's own range
\* check) for position new_position
AskedPosition(r) ==
  /\ req[r].pc = "done" /\ req[r].op \in MoveOps
  /\ Exists(base, req[r].task_id)
  /\ req[r].op = "move_pos" \/ req[r].reply \in {"failed", "moved"}

\* C6: a move to a position below 1 or above N, N the number of tasks of the
\* task's project, fails and writes nothing: every task keeps its position.
C6_OutOfRangeRejected ==
  \A r \in Reqs :
    (/\ AskedPosition(r)
     /\ \/ req[r].new_position < 1
        \/ req[r].new_position > Count(base, base[req[r].task_id].project_id))
    => /\ req[r].reply \in {"rejected", "failed"}
       /\ tasks = base
       /\ req[r].writes = 0

\* C6 witness: move_task_to_position itself has refused a position above N
C6_Witness ==
  \E r \in Reqs :
    /\ AskedPosition(r) /\ req[r].reply = "failed"
    /\ req[r].new_position > Count(base, base[req[r].task_id].project_id)
    /\ tasks = base

\* C7 (as claimed): moving an existing task to the position it already has
\* succeeds and writes nothing.  Stated of every finished move-by-position
\* request that named the task's own position, and of move_task_to_position
\* called with the task's own position on the table of any state where no
\* request is running.
C7_SamePositionSucceeds ==
  /\ \A r \in Reqs :
       (/\ Done(r, "move_pos") /\ Exists(base, req[r].task_id)
        /\ req[r].new_position = base[req[r].task_id].order_index)
       => req[r].reply = "moved" /\ req[r].writes = 0
  /\ (\A r \in Reqs : Idle(r)) =>
       \A id \in Rows :
         /\ MoveResult(tasks, id, tasks[id].order_index)
         /\ MoveTask(tasks, id, tasks[id].order_index) = tasks

\* C8: from contiguous positions 1..N, move(t, p) followed by move(t, old),
\* old the position t had, gives back every task its position.
C8_MoveBackRestores ==
  \A r \in Reqs :
    (/\ Done(r, "move_pos") /\ req[r].reply = "moved"
     /\ hist.task_id = req[r].task_id /\ hist.from = req[r].new_position
     /\ Contiguous(hist.pre, req[r].project_id))
    => tasks = hist.pre

\* C8 witness: move(A, 3) then move(A, 1) on [A, B, C]
C8_Witness ==
  \E r \in Reqs :
    /\ Done(r, "move_pos") /\ req[r].reply = "moved"
    /\ hist.task_id = req[r].task_id
    /\ hist.from = 1 /\ hist.to = 3 /\ req[r].new_position = 1
    /\ Contiguous(hist.pre, req[r].project_id)
    /\ Count(hist.pre, req[r].project_id) = 3
    /\ base # hist.pre
    /\ tasks = hist.pre

\* C9 (as claimed): a finished create_task has given the new task the
\* position (number of tasks the project had) + 1.
C9_AppendAtCountPlusOne ==
  \A r \in Reqs :
    Done(r, "create") =>
      tasks[req[r].task_id].order_index = Count(base, req[r].project_id) + 1

\* the errors of an edit whose message no longer exists
TargetGone == {"edit_not_found", "id_invalid"}

\* C10 (as claimed): when a handler that pushes the roadmap to the channel
\* message (append, move, delete, status change, manual update) has had its
\* edit refused because the message is gone, the project has neither
\* channel_id nor message_id any more and the reply says the channel was
\* unlinked.
C10_TargetGoneUnlinks ==
  \A r \in Reqs :
    (/\ req[r].pc = "done"
     /\ req[r].op \in {"create", "delete", "set_status", "update_channel"}
                       \cup MoveOps
     /\ req[r].message_id # NULL
     /\ req[r].err \in TargetGone)
    => /\ projects[req[r].project_id].channel_id = NULL
       /\ projects[req[r].project_id].message_id = NULL
       /\ req[r].notice = "unlinked"

\* the handlers that change the task list and then run the sync pass
MutOps == {"create", "delete", "set_status"} \cup MoveOps

\* request r has finished and its mutation succeeded
Mutated(r) ==
  /\ req[r].pc = "done" /\ req[r].op \in MutOps
  /\ req[r].reply \in {"created", "deleted", "moved", "status_set"}

\* the binding of r's project is the one r loaded
BindingKept(r) ==
  /\ projects[req[r].project_id].channel_id = req[r].channel_id
  /\ projects[req[r].project_id].message_id = req[r].message_id

BindingCleared(r) ==
  /\ projects[req[r].project_id].channel_id = NULL
  /\ projects[req[r].project_id].message_id = NULL

\* the errors of an edit refused because the bot lost its access
AccessRevoked == {"kicked", "not_member"}

\* C11 (as claimed): when the edit of the sync pass that follows an append,
\* a move, a delete or a status change has failed because the bot was kicked,
\* is forbidden or is not a member, the project has neither channel_id nor
\* message_id.
C11_AccessRevokedUnlinks ==
  \A r \in Reqs :
    (Mutated(r) /\ req[r].edits = 1 /\ req[r].err \in AccessRevoked)
    => BindingCleared(r)

\* C12 (as claimed): when the edit of a sync pass (after an append, a move,
\* a delete, a status change, or in the manual update) has reported that the
\* message is not modified, the binding is as it was and the reply carries
\* neither a warning nor an error.
C12_UnchangedIsSilent ==
  \A r \in Reqs :
    (/\ req[r].pc = "done" /\ req[r].op \in MutOps \cup {"update_channel"}
     /\ req[r].edits = 1 /\ req[r].err = "not_modified")
    => /\ BindingKept(r)
       /\ req[r].notice \notin {"warning", "error", "unlinked"}

\* C13 (as claimed): when a sync attempt has failed with an error of no
\* named class (a network error), raised by the edit or the send, or by the
\* membership check of the manual update, the binding is as it was, the
\* reply carries a warning and no second call was made.
C13_OtherErrorKeepsBinding ==
  \A r \in Reqs :
    (/\ req[r].pc = "done" /\ req[r].op \in MutOps \cup {"update_channel"}
     /\ req[r].err = "network")
    => /\ BindingKept(r)
       /\ req[r].notice \in {"warning", "error"}
       /\ req[r].edits + req[r].sends <= 1

\* the errors of an edit refused because the text is too large
TooLarge == {"too_long", "entity_too_large"}

\* C14 (as claimed): when the edit of a sync pass has failed as too large, a
\* new message was sent, and either its id is the project's message_id or,
\* the send having failed, the project has neither channel_id nor
\* message_id.
C14_TooLargeRecreates ==
  \A r \in Reqs :
    (/\ req[r].pc = "done" /\ req[r].op \in MutOps \cup {"update_channel"}
     /\ req[r].edits = 1 /\ req[r].err \in TooLarge)
    => /\ req[r].sends = 1
       /\ \/ BindingCleared(r)
          \/ /\ projects[req[r].project_id].channel_id = req[r].channel_id
             /\ projects[req[r].project_id].message_id = sent
             /\ sent # req[r].message_id

\* C15 (as claimed): the sync pass after a mutation of a project whose
\* channel_id is set has attempted an edit when message_id was set, and a
\* send when it was not, the id of the message sent becoming message_id.
C15_EditOrSend ==
  \A r \in Reqs :
    (Mutated(r) /\ req[r].channel_id # NULL)
    => IF req[r].message_id # NULL
       THEN req[r].edits = 1
       ELSE /\ req[r].sends = 1
            /\ req[r].err = "ok" =>
                 projects[req[r].project_id].message_id = sent

\* C16 (as claimed): whenever no handler is running, every project has
\* channel_id and message_id both set or both null.
C16_BindingIsWhole ==
  (\A r \in Reqs : Idle(r)) =>
    \A p \in Projects :
      (projects[p].channel_id = NULL) = (projects[p].message_id = NULL)

\* the table the mutation of request r leaves when it runs alone from base
Expected(r) ==
  CASE req[r].op = "create" ->
         [base EXCEPT ![req[r].task_id] =
            NewTask(req[r].project_id, req[r].next_order, req[r].at)]
    [] req[r].op = "delete" -> DeletedTable(base, req[r].task_id)
    [] req[r].op \in MoveOps ->
         MoveTask(base, req[r].task_id, req[r].new_position)
    [] req[r].op = "set_status" ->
         UpdateStatus(base, req[r].task_id, req[r].new_status, req[r].at)
    [] OTHER -> base

\* request r is in the sync pass that follows its mutation, or has ended it
InSyncPass(r) ==
  /\ req[r].op \in MutOps
  /\ req[r].reply \in {"created", "deleted", "moved", "status_set"}
  /\ req[r].pc \in {"sync_load", "sync_read", "sync_edit", "done"}

\* C17: from the commit of a mutation on, through the sync pass and whatever
\* its outcome (the edit succeeding or failing with any error, the reply
\* failing and the middleware rolling the session back), the rows of tasks
\* are the ones the mutation committed.
C17_SyncLeavesTasks ==
  \A r \in Reqs : InSyncPass(r) => tasks = Expected(r)

\* C17 witness: a move changed the rows, its edit failed, the reply failed
\* and the session was rolled back; the rows are the moved ones
C17_Witness ==
  \E r \in Reqs :
    /\ Mutated(r) /\ req[r].op = "move_pos" /\ req[r].edits = 1
    /\ req[r].err = "network" /\ ~req[r].delivered
    /\ tasks # base /\ tasks = Expected(r)

\* the task lines of project p read from table T: the k-th line is the task
\* with k - 1 tasks before it
LinesOf(T, p) ==
  LET ids == ProjectTaskIds(T, p)
      before(a) == {b \in ids :
                      \/ T[b].order_index < T[a].order_index
                      \/ (T[b].order_index = T[a].order_index /\ b < a)}
  IN [k \in 1..Cardinality(ids) |->
        LET a == CHOOSE x \in ids : Cardinality(before(x)) = k - 1
        IN [id |-> a, status |-> T[a].status]]

\* C18: when a mutating handler makes its mirror call the mutation's write
\* is committed, and the text it pushes is rendered from the tasks as they
\* are after that commit.
C18_PushAfterCommit ==
  \A r \in Reqs :
    (/\ InSyncPass(r)
     /\ req[r].pc = "sync_edit" \/ (req[r].pc = "done" /\ req[r].edits = 1))
    => /\ tasks = Expected(r)
       /\ req[r].op \in {"create", "delete", "set_status"} => req[r].writes >= 1
       /\ req[r].text = LinesOf(Expected(r), req[r].project_id)

\* C18 witness: a delete pushed the list without the deleted task
C18_Witness ==
  \E r \in Reqs :
    /\ Mutated(r) /\ req[r].op = "delete" /\ req[r].edits = 1
    /\ req[r].text = LinesOf(tasks, req[r].project_id)
    /\ req[r].text # LinesOf(base, req[r].project_id)
    /\ Len(req[r].text) = 1

Allowed(status) ==
  CASE status = "planned" -> {"in_progress", "cancelled"}
    [] status = "in_progress" -> {"completed", "planned", "cancelled"}
    [] status = "completed" -> {"in_progress", "planned", "cancelled"}
    [] status = "cancelled" -> {"planned", "in_progress", "completed"}
    [] OTHER -> {}

\* C20 (as claimed): a finished status change has left the task's status as
\* it was or has changed it along one of the listed transitions.
C20_ListedTransitionsOnly ==
  \A r \in Reqs :
    (Done(r, "set_status") /\ Exists(base, req[r].task_id)) =>
      \/ tasks[req[r].task_id].status = base[req[r].task_id].status
      \/ tasks[req[r].task_id].status \in Allowed(base[req[r].task_id].status)

\* C21: the status of every task is one of planned, in_progress, completed,
\* cancelled; a finished create_task has made its task planned; a finished
\* status change that asked for any other value has reported failure and
\* has written nothing, every task being as it was.
C21_StatusIsValid ==
  /\ \A id \in Rows : tasks[id].status \in Statuses
  /\ \A r \in Reqs :
       Done(r, "create") => tasks[req[r].task_id].status = "planned"
  /\ \A r \in Reqs :
       (Done(r, "set_status") /\ req[r].new_status \notin Statuses)
       => /\ req[r].reply = "failed"
          /\ tasks = base
          /\ req[r].writes = 0

\* C21 witness: a status that is none of the four was asked for a completed
\* task and refused
C21_Witness ==
  \E r \in Reqs :
    /\ Done(r, "set_status") /\ req[r].new_status = "archived"
    /\ Exists(tasks, req[r].task_id)
    /\ tasks[req[r].task_id].status = "completed"
    /\ req[r].reply = "failed"

\* actual_days d is max(whole days in delta ticks, 1)
WholeDaysOrOne(d, delta) ==
  IF delta < TicksPerDay THEN d = 1
  ELSE d * TicksPerDay <= delta /\ delta < (d + 1) * TicksPerDay

\* request r has finished a status change that moved its task into
\* completed from another status
EnteredCompleted(r) ==
  /\ Done(r, "set_status") /\ req[r].reply = "status_set"
  /\ req[r].new_status = "completed"
  /\ base[req[r].task_id].status # "completed"

\* C22: a status change that moved a task into completed has set
\* completed_at to the time of the call and actual_days to the larger of 1
\* and the whole days elapsed since the task's created_at; every completed
\* task has a completed_at and an actual_days of at least 1.
C22_CompletionStamps ==
  /\ \A r \in Reqs :
       EnteredCompleted(r) =>
         LET t == tasks[req[r].task_id] IN
           /\ t.completed_at = req[r].at /\ t.completed_at # NULL
           /\ WholeDaysOrOne(t.actual_days, req[r].at - t.created_at)
  /\ \A id \in Rows :
       tasks[id].status = "completed" =>
         tasks[id].completed_at # NULL /\ tasks[id].actual_days >= 1

\* C22 witness: a task was completed a whole day or more after its creation
\* and has the whole days elapsed as actual_days
C22_Witness ==
  \E r \in Reqs :
    /\ EnteredCompleted(r)
    /\ req[r].at - tasks[req[r].task_id].created_at >= TicksPerDay
    /\ tasks[req[r].task_id].actual_days * TicksPerDay
         <= req[r].at - tasks[req[r].task_id].created_at
    /\ tasks[req[r].task_id].completed_at = now

\* C23 (as claimed): a task that was completed when a request began and is
\* completed when the request has finished has the completed_at and the
\* actual_days it had; so after update_task_status(task, completed) on a
\* completed task.
C23_CompletionKept ==
  \A r \in Reqs :
    req[r].pc = "done" =>
      \A id \in TaskIds :
        (/\ Exists(base, id) /\ Exists(tasks, id)
         /\ base[id].status = "completed" /\ tasks[id].status = "completed")
        => /\ tasks[id].completed_at = base[id].completed_at
           /\ tasks[id].actual_days = base[id].actual_days

\* C24: while a status change runs and when it has finished, whatever the
\* status asked for, every task has the order_index it had when the request
\* began.
C24_StatusKeepsOrder ==
  \A r \in Reqs :
    req[r].op = "set_status" =>
      \A id \in TaskIds : tasks[id].order_index = base[id].order_index

\* C24 witness: the status of the second of two tasks was changed and both
\* are where they were
C24_Witness ==
  \E r \in Reqs :
    /\ Done(r, "set_status") /\ req[r].reply = "status_set"
    /\ tasks # base
    /\ Count(tasks, 1) = 2
    /\ tasks[req[r].task_id].order_index = 2
    /\ base[req[r].task_id].order_index = 2

\* C25: a finished move, status change or delete that named a task id no
\* row has reported failure, has executed no write, has left every task as
\* it was and has made no edit and no send.
C25_MissingTaskRejected ==
  \A r \in Reqs :
    (/\ req[r].pc = "done"
     /\ req[r].op \in MoveOps \cup {"set_status", "delete"}
     /\ ~Exists(base, req[r].task_id))
    => /\ req[r].reply \in {"failed", "not_found", "rejected"}
       /\ req[r].writes = 0
       /\ tasks = base
       /\ req[r].edits = 0 /\ req[r].sends = 0

\* C25 witness: a status change named a task that is not there, in a state
\* where the project has a task and is bound to a channel message
C25_Witness ==
  \E r \in Reqs :
    /\ Done(r, "set_status") /\ ~Exists(base, req[r].task_id)
    /\ req[r].reply = "failed"
    /\ Count(tasks, 1) >= 1
    /\ HasBinding(projects[1])

\* C26 (as claimed): a move that ended with a storage failure inside its
\* loop, after one UPDATE or more, has reported the failure and every task
\* has the order_index it had before the move.
C26_FailedMoveUndone ==
  \A r \in Reqs :
    (/\ req[r].pc = "done" /\ req[r].op \in MoveOps
     /\ req[r].err = "storage")
    => /\ req[r].reply = "error"
       /\ \A id \in TaskIds : tasks[id].order_index = base[id].order_index

\* C27 (as claimed): whenever a step changes the order_index of a task that
\* stays in the table, the step is taken by a request made for a task of
\* that task's project, also with requests in flight together.
C27_OtherProjectsUntouched ==
  [][\A id \in TaskIds :
       (/\ Exists(tasks, id) /\ Exists(tasks', id)
        /\ tasks'[id].project_id = tasks[id].project_id
        /\ tasks'[id].order_index # tasks[id].order_index)
       => \E r \in Reqs :
            /\ req'[r] # req[r]
            /\ req[r].project_id = tasks[id].project_id]_vars

\* C28: a finished mutation of a project whose channel_id was unset when the
\* sync pass loaded it has made no edit and no send, reports neither an
\* error nor a warning, and has left the tasks as the mutation committed
\* them and the project's binding as it was.
C28_NoChannelNoSync ==
  \A r \in Reqs :
    (Mutated(r) /\ req[r].channel_id = NULL)
    => /\ req[r].edits = 0 /\ req[r].sends = 0
       /\ req[r].err = "none" /\ req[r].notice = "none"
       /\ tasks = Expected(r)
       /\ BindingKept(r)

\* C28 witness: a move changed the rows of a project that has no channel
\* and made no call
C28_Witness ==
  \E r \in Reqs :
    /\ Mutated(r) /\ req[r].op = "move_pos" /\ req[r].channel_id = NULL
    /\ tasks # base
    /\ req[r].edits = 0 /\ req[r].sends = 0

C30_RenderIsPure ==
  \A r, q \in Reqs :
    (/\ Done(r, "show") /\ Done(q, "show")
     /\ req[r].project_id = req[q].project_id
     /\ req[r].all_tasks = req[q].all_tasks
     /\ req[r].text = req[q].text)
    => req[r].stamp = req[q].stamp

\* C31: a finished rendering of a project with no task shows progress 0 and
\* the counter 0/0, has no task row and no statistics row.
C31_EmptyRender ==
  \A r \in Reqs :
    (Done(r, "show") /\ Count(tasks, req[r].project_id) = 0
     /\ req[r].all_tasks = << >>)
    => /\ req[r].head.progress = 0
       /\ req[r].head.completed_tasks = 0
       /\ req[r].head.total_tasks = 0
       /\ req[r].text = << >>
       /\ req[r].stats = {}

\* C31 witness: the roadmap of the project was shown before it had a task
C31_Witness ==
  \E r \in Reqs :
    /\ Done(r, "show") /\ req[r].reply = "shown"
    /\ Count(tasks, req[r].project_id) = 0
    /\ req[r].head.total_tasks = 0 /\ req[r].stats = {}

\* C32 (as claimed): two create_task calls for one project that ran
\* together, each having read the maximum order_index the project had before
\* either committed, have given their two tasks different positions.
C32_ConcurrentCreatesDiffer ==
  \A r, q \in Reqs :
    (/\ r # q /\ epi = 2
     /\ req[r].op = "create" /\ req[r].pc \in {"sync_load", "done"}
     /\ req[q].op = "create" /\ req[q].pc \in {"sync_load", "done"}
     /\ req[r].project_id = req[q].project_id
     /\ req[r].next_order = NextOrder(base, req[r].project_id)
     /\ req[q].next_order = NextOrder(base, req[q].project_id))
    => tasks[req[r].task_id].order_index # tasks[req[q].task_id].order_index

\* the 1-based rank of task id in get_project_tasks of its project
Rank(T, id) ==
  1 + Cardinality({b \in ProjectTaskIds(T, T[id].project_id) :
                     \/ T[b].order_index < T[id].order_index
                     \/ (T[b].order_index = T[id].order_index /\ b < id)})

\* C33 (as claimed): with one request at a time, after a move to position p
\* that succeeded the task is the p-th task of get_project_tasks of its
\* project; after a move up or a move down that succeeded the task's rank
\* in that list differs by one from the rank it had.
C33_PositionIsRank ==
  \A r \in Reqs :
    (req[r].pc = "done" /\ req[r].op \in MoveOps /\ req[r].reply = "moved")
    => /\ Rank(tasks, req[r].task_id) = req[r].new_position
       /\ req[r].op = "move_up" =>
            Rank(tasks, req[r].task_id) = Rank(base, req[r].task_id) - 1
       /\ req[r].op = "move_down" =>
            Rank(tasks, req[r].task_id) = Rank(base, req[r].task_id) + 1

\* no two tasks of project p have the same order_index
Distinct(T, p) ==
  \A a, b \in ProjectTaskIds(T, p) :
    T[a].order_index = T[b].order_index => a = b

\* C34: with the append, move and delete requests run one at a time,
\* whenever no request is running no two tasks of a project have the same
\* order_index, also when the positions have gaps.
C34_PositionsDistinct ==
  (\A r \in Reqs : Idle(r)) => \A p \in Projects : Distinct(tasks, p)

\* C34 witness: a move has changed the positions of three tasks whose
\* positions have a gap, and they are distinct
C34_Witness ==
  \E r \in Reqs :
    /\ Done(r, "move_pos") /\ req[r].reply = "moved"
    /\ tasks # base
    /\ Count(tasks, 1) = 3
    /\ ~Contiguous(base, 1) /\ ~Contiguous(tasks, 1)
    /\ Distinct(tasks, 1)

\* C35: a move that succeeded from distinct positions has kept the order of
\* the other tasks of the project: of two tasks other than the moved one,
\* the one that came first comes first.
C35_OthersKeepOrder ==
  \A r \in Reqs :
    (/\ req[r].pc = "done" /\ req[r].op \in MoveOps
     /\ req[r].reply = "moved"
     /\ Distinct(base, req[r].project_id))
    => \A a, b \in ProjectTaskIds(base, req[r].project_id) \ {req[r].task_id} :
         base[a].order_index < base[b].order_index =>
           tasks[a].order_index < tasks[b].order_index

\* C35 witness: the last of three tasks was moved to the front; the two
\* others were shifted and are in the order they were in
C35_Witness ==
  \E r \in Reqs, a, b \in TaskIds :
    /\ Done(r, "move_pos") /\ req[r].reply = "moved"
    /\ Count(base, req[r].project_id) = 3
    /\ {a, b} = ProjectTaskIds(base, req[r].project_id) \ {req[r].task_id}
    /\ base[a].order_index < base[b].order_index
    /\ base[b].order_index < base[req[r].task_id].order_index
    /\ tasks[req[r].task_id].order_index < tasks[a].order_index
    /\ tasks[a].order_index < tasks[b].order_index
    /\ tasks[a].order_index # base[a].order_index

\* C36 (as claimed): whenever no handler is running, the message_id of a
\* project that has both channel_id and message_id is the id of a message
\* sent to that channel_id.
C36_MessageIsOfChannel ==
  (\A r \in Reqs : Idle(r)) =>
    \A p \in Projects :
      (projects[p].channel_id # NULL /\ projects[p].message_id # NULL)
      => posted[projects[p].message_id] = projects[p].channel_id

\* C37 (as claimed): when two mutations of one project have run together,
\* each has made its edit and both edits succeeded, the text of the edit
\* made last, which is what the channel message shows, is the task lines of
\* the tasks as they are stored.
C37_MirrorIsFinal ==
  \A r, q \in Reqs :
    (/\ r # q /\ epi = 2
     /\ Mutated(r) /\ Mutated(q)
     /\ req[r].project_id = req[q].project_id
     /\ req[r].edits = 1 /\ req[r].err = "ok"
     /\ req[q].edits = 1 /\ req[q].err = "ok"
     /\ req[q].over)
    => req[q].text = LinesOf(tasks, req[q].project_id)

\* C38 (as claimed): a finished delete_project has left the project with
\* neither channel_id nor message_id, and a finished append, move, delete
\* or status change on a task of a deleted project has made no edit and no
\* send.
C38_DeletedProjectUnlinked ==
  /\ \A r \in Reqs : Done(r, "delete_project") => BindingCleared(r)
  /\ \A r \in Reqs :
       (/\ req[r].pc = "done" /\ req[r].op \in MutOps
        /\ req[r].project_id \in Projects
        /\ ~projects[req[r].project_id].is_active)
       => req[r].edits = 0 /\ req[r].sends = 0

\* with one request at a time, a move returns what MoveResult gives and
\* leaves the table MoveTask gives
MoveTaskIsTheLoop ==
  \A r \in Reqs :
    (req[r].pc = "done" /\ req[r].op \in MoveOps /\ epi = 1) =>
      /\ tasks = MoveTask(base, req[r].task_id, req[r].new_position)
      /\ req[r].reply \in {"moved", "failed"} =>
           (req[r].reply = "moved") =
             MoveResult(base, req[r].task_id, req[r].new_position)

====
